---- MODULE Spec2Model ----
(***************************************************************************)
(* Model of src/main.py: the IPFS CSV dumper.                              *)
(*                                                                         *)
(* traverse_directory (the Tree Walker) and traverse_dag (the Block        *)
(* Walker) are recursive Python functions run by one thread.  The model    *)
(* keeps the Python call stack explicitly: one frame per active call,      *)
(* holding the call's arguments, its locals and the place it resumes at.   *)
(* The remote node is an external collaborator: every query draws its      *)
(* outcome (an error, a body without the expected key, or a body with a    *)
(* bounded list) when it is issued.                                        *)
(*                                                                         *)
(* Columns that are copied from a response to a row without being read by  *)
(* the traversal (name, size, cumulative size, blocks) are left out.       *)
(***************************************************************************)
EXTENDS Integers, Sequences, FiniteSets, TLC

\* ------------------------------------------------------------------ bounds

\* Longest listing (entries over all Objects of one ls response).
MaxEntries == 2
\* Longest Links list of one dag/get response.
MaxLinks == 2

\* Most entries and links the remote node serves in one run, over all of
\* its ls and dag/get responses (the size of the remote graph).
MaxServed == 3

\* The content identifiers of the remote graph; RootCid is args.root_cid.
CIDs == {"R", "A", "B"}
RootCid == "R"
\* The Tsize values a DAG link may carry.
Tsizes == {1, 2}
\* Python's None.
None == "None"

VARIABLES
    stack,      \* the call stack, innermost call last
    visited,    \* the shared visited set
    dirs,       \* rows written by dir_csv_writer, in order
    files,      \* rows written by file_csv_writer, in order
    blocks,     \* rows written by dag_csv_writer, in order
    status,     \* "running", "done" (the root call returned), "crashed"
    result,     \* the value returned by the root call
    log         \* history: calls, queries and rows in the order they happen

vars == <<stack, visited, dirs, files, blocks, status, result, log>>

\* ------------------------------------------------------- remote responses

\* A listing entry: Hash is the child CID, Type = 1 denotes a directory.
Entries == [Hash : CIDs, Type : {1, 2}]
\* A DAG link: link['Hash']['/'] and link['Tsize'].
Links == [Hash : CIDs, Tsize : Tsizes]

SeqsUpTo(S, n) == UNION {[1..k -> S] : k \in 0..n}

\* What a query can come to: kind "error" is a raised exception, "missing"
\* a parsed body without the key the walker looks for, "ok" a body with it.
Response(kind, items) == [kind |-> kind, items |-> items]

LsResponses ==
    {Response("error", <<>>), Response("missing", <<>>)}
        \cup {Response("ok", s) : s \in SeqsUpTo(Entries, MaxEntries)}

DagResponses ==
    {Response("error", <<>>), Response("missing", <<>>)}
        \cup {Response("ok", s) : s \in SeqsUpTo(Links, MaxLinks)}

\* ---------------------------------------------------------------- history

\* One record shape for every event:
\*   a call      ev = the function, cid and parent = its cid and parent_cid,
\*               kind = "seen" when cid is in the visited set at entry and
\*               "fresh" otherwise, idx and pidx = row_index, parent_index;
\*   a query     ev = get_ls, get_stat or get_dag, cid = the CID asked for,
\*               parent = the cid of the call that asks, kind and items =
\*               the response;
\*   a row       ev = tree_row or block_row, cid = the row's cid, parent =
\*               the cid of the call that writes it, items = <<the row>>,
\*               kind = the stream ("dirs", "files") or the branch ("link",
\*               "final"), idx = current_index or the link's position;
\*   a return    ev = return, kind = the function, idx = the value.
Queries == {"get_ls", "get_stat", "get_dag"}
Ev(ev, cid, parent, kind, items, idx, pidx) ==
    [ev |-> ev, cid |-> cid, parent |-> parent, kind |-> kind,
     items |-> items, idx |-> idx, pidx |-> pidx]

\* The entries and links served so far.
RECURSIVE ServedUpTo(_)
ServedUpTo(k) ==
    IF k = 0 THEN 0
    ELSE ServedUpTo(k - 1)
            + (IF log[k].ev \in Queries THEN Len(log[k].items) ELSE 0)
Served == ServedUpTo(Len(log))
CanServe(resp) == Served + Len(resp.items) <= MaxServed

\* ------------------------------------------------------------ call frames

Frame(fn, cid, parent_cid, row_index, parent_index) ==
    [fn |-> fn, pc |-> "enter", cid |-> cid, parent_cid |-> parent_cid,
     row_index |-> row_index, parent_index |-> parent_index,
     items |-> <<>>, i |-> 1, current_index |-> 0,
     num_links |-> 0, final_block_hash |-> None]

Top == stack[Len(stack)]
Callers == SubSeq(stack, 1, Len(stack) - 1)
Running(fn, pc) ==
    /\ status = "running"
    /\ stack # <<>>
    /\ Top.fn = fn
    /\ Top.pc = pc

\* ------------------------------------------------- pieces of the walkers

\* Mutant: the visited test is left out.
Seen_Never(cid, v) == FALSE

\* `cid in visited` (lines 42 and 80).
Seen(cid, v) == cid \in v

\* Mutant: the CID is never recorded.
Visit_Forgets(v, cid) == v

\* `visited.add(cid)` (lines 44 and 82).
Visit(v, cid) == v \cup {cid}

\* The try/except blocks around the three queries: `except Exception`
\* catches what get_ls, get_stat and get_dag re-raise.
TryBlocks ==
    {<<"traverse_dag", "get_dag">>,
     <<"traverse_directory", "get_ls">>,
     <<"traverse_directory", "get_stat">>}
\* Mutant: only the stat query is inside a try block.
Caught_StatOnly(fn, query) == query = "get_stat"

\* Mutant: only the listing query is inside a try block.
Caught_ListingOnly(fn, query) == query = "get_ls"

Caught(fn, query) == <<fn, query>> \in TryBlocks

\* Mutant: the Links key is never found.
HasLinks_Never(dag_data) == FALSE

\* `isinstance(dag_data, dict) and 'Links' in dag_data` (line 52).
HasLinks(dag_data) == dag_data.kind = "ok"

\* Mutant: links[0] instead of links[-1].
FinalBlockHash_First(links) ==
    IF Len(links) > 0 THEN links[1].Hash ELSE None

\* `links[-1]['Hash']['/'] if num_links > 0 else None` (line 55).
FinalBlockHash(links) ==
    IF Len(links) > 0 THEN links[Len(links)].Hash ELSE None

\* The row written for one link of an internal node (lines 60-66).
LinkRow(cid, parent_cid, final_block_hash, num_links, link) ==
    [cid |-> cid, parent_cid |-> parent_cid,
     final_block_hash |-> final_block_hash, num_links |-> num_links,
     size |-> link.Tsize]

\* Mutant: the block names itself as its parent.
FinalBlockRow_OwnParent(cid, parent_cid) ==
    [cid |-> cid, parent_cid |-> cid, final_block_hash |-> cid,
     num_links |-> 0, size |-> 0]

\* The row written in the else branch, "the final block" (lines 70-76).
FinalBlockRow(cid, parent_cid) ==
    [cid |-> cid, parent_cid |-> parent_cid, final_block_hash |-> cid,
     num_links |-> 0, size |-> 0]

\* `'directory' if link.get('Type') == 1 else 'file'` (line 99).
TypeStr(link) == IF link.Type = 1 THEN "directory" ELSE "file"

\* Mutant: the row names the listed directory instead of the child.
TreeRow_OfParent(type_str, child_cid, parent_cid, parent_index) ==
    [type |-> type_str, cid |-> parent_cid, parent_cid |-> parent_cid,
     index_of_parent |-> parent_index]

\* The row written for one listing entry (lines 114-123).
TreeRow(type_str, child_cid, parent_cid, parent_index) ==
    [type |-> type_str, cid |-> child_cid, parent_cid |-> parent_cid,
     index_of_parent |-> parent_index]

\* Mutant: every row goes to file_csv_writer.
WriterFor_AlwaysFiles(type_str) == "files"

\* `dir_csv_writer if type_str == 'directory' else file_csv_writer` (113).
WriterFor(type_str) == IF type_str = "directory" THEN "dirs" ELSE "files"

\* Mutant: the counter is not advanced.
NextRowIndex_Stuck(row_index) == row_index

\* `row_index += 1` (line 111).
NextRowIndex(row_index) == row_index + 1

\* Mutant: `break` instead of `continue`.
SkipEntry_Break(f) == [f EXCEPT !.i = Len(f.items) + 1]

\* `continue` after a failed stat (line 105): on to the next entry.
SkipEntry(f) == [f EXCEPT !.i = f.i + 1]

\* The call stack after the innermost call returns ret.  main discards the
\* root call's value; line 129 assigns a nested traverse_directory's value
\* to the caller's row_index; traverse_dag's value is not used.
Returned(stk, ret) ==
    LET callee == stk[Len(stk)]
        rest == SubSeq(stk, 1, Len(stk) - 1)
    IN  IF rest # <<>> /\ callee.fn = "traverse_directory"
        THEN [rest EXCEPT ![Len(rest)].row_index = ret]
        ELSE rest

ReturnEv(f, ret) == Ev("return", f.cid, f.parent_cid, f.fn, <<>>, ret, 0)
CallEv(f) ==
    Ev(f.fn, f.cid, f.parent_cid,
       IF f.cid \in visited THEN "seen" ELSE "fresh", <<>>,
       f.row_index, f.parent_index)
RowEv(ev, f, kind, row, idx) == Ev(ev, row.cid, f.cid, kind, <<row>>, idx, 0)
QueryEv(query, cid, f, resp) ==
    Ev(query, cid, f.cid, resp.kind, resp.items, 0, 0)

\* The innermost call returns ret, after appending evs to the history.
Return(ret, evs) ==
    /\ stack' = Returned(stack, ret)
    /\ status' = IF Len(stack) = 1 THEN "done" ELSE status
    /\ result' = IF Len(stack) = 1 THEN ret ELSE result
    /\ log' = log \o evs \o <<ReturnEv(Top, ret)>>

\* An exception no handler catches unwinds every frame and ends the run.
Crash(evs) ==
    /\ status' = "crashed"
    /\ log' = log \o evs
    /\ UNCHANGED <<stack, result>>

Resume(f) == stack' = Callers \o <<f>>

\* Mutant: the callee is put aside and the caller goes on first.
Call_Deferred(f, g) == stack' = Callers \o <<g, f>>

\* A call: the callee g runs to its return before the caller f goes on.
Call(f, g) == stack' = Callers \o <<f, g>>

\* ------------------------------------------------------------ traverse_dag

\* Lines 42-43: the CID is in the visited set, return at once.
DagRevisit ==
    /\ Running("traverse_dag", "enter")
    /\ Seen(Top.cid, visited)
    /\ Return(0, <<CallEv(Top)>>)
    /\ UNCHANGED <<visited, dirs, files, blocks>>

\* Lines 44-50: mark, fetch, and the fetch fails.
DagFetchError ==
    /\ Running("traverse_dag", "enter")
    /\ ~Seen(Top.cid, visited)
    /\ visited' = Visit(visited, Top.cid)
    /\ LET evs == <<CallEv(Top),
                    QueryEv("get_dag", Top.cid, Top, Response("error", <<>>))>>
       IN  IF Caught("traverse_dag", "get_dag")
           THEN Return(0, evs)
           ELSE Crash(evs)
    /\ UNCHANGED <<dirs, files, blocks>>

\* Lines 44-55: mark, fetch, the body has Links: set up the loop.
DagFetchLinks ==
    /\ Running("traverse_dag", "enter")
    /\ ~Seen(Top.cid, visited)
    /\ \E dag_data \in DagResponses :
        /\ dag_data.kind # "error"
        /\ HasLinks(dag_data)
        /\ CanServe(dag_data)
        /\ Resume([Top EXCEPT !.pc = "loop", !.i = 1,
                              !.items = dag_data.items,
                              !.num_links = Len(dag_data.items),
                              !.final_block_hash =
                                  FinalBlockHash(dag_data.items)])
        /\ log' = log \o <<CallEv(Top),
                           QueryEv("get_dag", Top.cid, Top, dag_data)>>
    /\ visited' = Visit(visited, Top.cid)
    /\ UNCHANGED <<dirs, files, blocks, status, result>>

\* Lines 44-52, 68-76: mark, fetch, the body has no Links: one row.
DagFetchFinalBlock ==
    /\ Running("traverse_dag", "enter")
    /\ ~Seen(Top.cid, visited)
    /\ \E dag_data \in DagResponses :
        /\ dag_data.kind # "error"
        /\ ~HasLinks(dag_data)
        /\ LET row == FinalBlockRow(Top.cid, Top.parent_cid)
           IN  /\ blocks' = Append(blocks, row)
               /\ Return(0, <<CallEv(Top),
                              QueryEv("get_dag", Top.cid, Top, dag_data),
                              RowEv("block_row", Top, "final", row, 0)>>)
    /\ visited' = Visit(visited, Top.cid)
    /\ UNCHANGED <<dirs, files>>

\* Lines 57-67: one turn of the loop, a row and the recursive call.
DagLink ==
    /\ Running("traverse_dag", "loop")
    /\ Top.i <= Len(Top.items)
    /\ LET link == Top.items[Top.i]
           row == LinkRow(Top.cid, Top.parent_cid, Top.final_block_hash,
                          Top.num_links, link)
       IN  /\ blocks' = Append(blocks, row)
           /\ Call([Top EXCEPT !.i = Top.i + 1],
                   Frame("traverse_dag", link.Hash, Top.cid, 0, 0))
           /\ log' = Append(log, RowEv("block_row", Top, "link", row, Top.i))
    /\ UNCHANGED <<visited, dirs, files, status, result>>

\* The loop of lines 57-67 is over: the function ends.
DagReturn ==
    /\ Running("traverse_dag", "loop")
    /\ Top.i > Len(Top.items)
    /\ Return(0, <<>>)
    /\ UNCHANGED <<visited, dirs, files, blocks>>

\* ------------------------------------------------------ traverse_directory

\* Lines 80-81: the CID is in the visited set, return row_index as given.
DirRevisit ==
    /\ Running("traverse_directory", "enter")
    /\ Seen(Top.cid, visited)
    /\ Return(Top.row_index, <<CallEv(Top)>>)
    /\ UNCHANGED <<visited, dirs, files, blocks>>

\* Lines 82-88: mark, list, and the listing query fails.
DirLsError ==
    /\ Running("traverse_directory", "enter")
    /\ ~Seen(Top.cid, visited)
    /\ visited' = Visit(visited, Top.cid)
    /\ LET evs == <<CallEv(Top),
                    QueryEv("get_ls", Top.cid, Top, Response("error", <<>>))>>
       IN  IF Caught("traverse_directory", "get_ls")
           THEN Return(Top.row_index, evs)
           ELSE Crash(evs)
    /\ UNCHANGED <<dirs, files, blocks>>

\* Lines 82-92: mark, list, the body has no Objects.
DirNoObjects ==
    /\ Running("traverse_directory", "enter")
    /\ ~Seen(Top.cid, visited)
    /\ visited' = Visit(visited, Top.cid)
    /\ Return(Top.row_index,
              <<CallEv(Top),
                QueryEv("get_ls", Top.cid, Top, Response("missing", <<>>))>>)
    /\ UNCHANGED <<dirs, files, blocks>>

\* Lines 82-95: mark, list, the body has Objects: set up the loops.  items
\* is the Links of the Objects, one after the other, as the two nested
\* loops of lines 94-95 go through them.
DirListed ==
    /\ Running("traverse_directory", "enter")
    /\ ~Seen(Top.cid, visited)
    /\ \E ls_data \in LsResponses :
        /\ ls_data.kind = "ok"
        /\ CanServe(ls_data)
        /\ Resume([Top EXCEPT !.pc = "loop", !.i = 1,
                              !.items = ls_data.items])
        /\ log' = log \o <<CallEv(Top),
                           QueryEv("get_ls", Top.cid, Top, ls_data)>>
    /\ visited' = Visit(visited, Top.cid)
    /\ UNCHANGED <<dirs, files, blocks, status, result>>

\* Lines 96-105: the stat query of the entry fails, `continue`.
DirStatError ==
    /\ Running("traverse_directory", "loop")
    /\ Top.i <= Len(Top.items)
    /\ LET child_cid == Top.items[Top.i].Hash
           evs == <<QueryEv("get_stat", child_cid, Top,
                            Response("error", <<>>))>>
       IN  IF Caught("traverse_directory", "get_stat")
           THEN /\ Resume(SkipEntry(Top))
                /\ log' = log \o evs
                /\ UNCHANGED <<status, result>>
           ELSE Crash(evs)
    /\ UNCHANGED <<visited, dirs, files, blocks>>

\* Lines 96-126: the stat query succeeds: the entry takes the next row
\* index, its row is written, traverse_dag is called on its CID.
DirEntry ==
    /\ Running("traverse_directory", "loop")
    /\ Top.i <= Len(Top.items)
    /\ LET link == Top.items[Top.i]
           child_cid == link.Hash
           type_str == TypeStr(link)
           current_index == Top.row_index
           row == TreeRow(type_str, child_cid, Top.parent_cid,
                          Top.parent_index)
       IN  /\ dirs' = IF WriterFor(type_str) = "dirs"
                      THEN Append(dirs, row) ELSE dirs
           /\ files' = IF WriterFor(type_str) = "files"
                       THEN Append(files, row) ELSE files
           /\ Call([Top EXCEPT !.pc = "after_dag",
                               !.current_index = current_index,
                               !.row_index = NextRowIndex(Top.row_index)],
                   Frame("traverse_dag", child_cid, Top.cid, 0, 0))
           /\ log' = log \o
                <<QueryEv("get_stat", child_cid, Top, Response("ok", <<>>)),
                  RowEv("tree_row", Top, WriterFor(type_str), row,
                        current_index)>>
    /\ UNCHANGED <<visited, blocks, status, result>>

\* Lines 128-129: traverse_dag is back and the entry is a directory:
\* the recursive call; its value becomes row_index when it returns.
DirRecurse ==
    /\ Running("traverse_directory", "after_dag")
    /\ LET link == Top.items[Top.i]
       IN  /\ TypeStr(link) = "directory"
           /\ Call([Top EXCEPT !.pc = "loop", !.i = Top.i + 1],
                   Frame("traverse_directory", link.Hash, Top.cid,
                         Top.row_index, Top.current_index))
    /\ UNCHANGED <<visited, dirs, files, blocks, status, result, log>>

\* Line 128: traverse_dag is back and the entry is a file: next entry.
DirNextEntry ==
    /\ Running("traverse_directory", "after_dag")
    /\ TypeStr(Top.items[Top.i]) # "directory"
    /\ Resume([Top EXCEPT !.pc = "loop", !.i = Top.i + 1])
    /\ UNCHANGED <<visited, dirs, files, blocks, status, result, log>>

\* Line 131: the loops are over, `return row_index`.
DirReturn ==
    /\ Running("traverse_directory", "loop")
    /\ Top.i > Len(Top.items)
    /\ Return(Top.row_index, <<>>)
    /\ UNCHANGED <<visited, dirs, files, blocks>>

\* -------------------------------------------------------------------- main

\* Lines 153-154: an empty visited set, the three files hold their headers
\* only, and traverse_directory(root, root, ..., 1, 0) is about to run.
Init ==
    /\ stack = <<Frame("traverse_directory", RootCid, RootCid, 1, 0)>>
    /\ visited = {}
    /\ dirs = <<>>
    /\ files = <<>>
    /\ blocks = <<>>
    /\ status = "running"
    /\ result = 0
    /\ log = <<>>

Next ==
    \/ DagRevisit
    \/ DagFetchError
    \/ DagFetchLinks
    \/ DagFetchFinalBlock
    \/ DagLink
    \/ DagReturn
    \/ DirRevisit
    \/ DirLsError
    \/ DirNoObjects
    \/ DirListed
    \/ DirStatError
    \/ DirEntry
    \/ DirRecurse
    \/ DirNextEntry
    \/ DirReturn

Spec == Init /\ [][Next]_vars

\* The one thread runs each statement as soon as the one before it is done
\* and every query returns or fails (a hung query is outside the model).
FairSpec == Spec /\ WF_vars(Next)

\* ------------------------------------------------- reading the history

Walkers == {"traverse_directory", "traverse_dag"}
Fetches == {"get_ls", "get_dag"}
Pos == DOMAIN log
At(ev) == {k \in Pos : log[k].ev = ev}
Done == status = "done"
NoQueryFailed == \A k \in Pos : log[k].ev \in Queries => log[k].kind # "error"
\* c was put in the visited set before event k.
VisitedBefore(c, k) ==
    \E j \in 1..(k - 1) :
        log[j].ev \in Walkers /\ log[j].cid = c /\ log[j].kind = "fresh"
TreeStreams == dirs \o files
Count(seq, c) == Cardinality({n \in DOMAIN seq : seq[n].cid = c})

\* ---------------------------------------------------------------- claims

\* C1: at-most-once processing.  Over the whole run every CID is the
\* subject of at most one fetch (a listing by traverse_directory or a
\* DAG-get by traverse_dag, never both, never twice), and a call of
\* either walker on a CID that is in the visited set is followed at once
\* by its return: no query, no row.
C1_AtMostOnce ==
    /\ \A c \in CIDs :
        Cardinality({k \in Pos : log[k].ev \in Fetches /\ log[k].cid = c})
            <= 1
    /\ \A k \in Pos :
        (log[k].ev \in Walkers /\ log[k].kind = "seen") =>
            /\ k + 1 \in Pos
            /\ log[k + 1].ev = "return"
            /\ log[k + 1].kind = log[k].ev
            /\ log[k + 1].cid = log[k].cid

\* C1 witness: a finished run in which both walkers were called on a
\* visited CID and a query failed.
C1_Witness ==
    /\ Done
    /\ ~NoQueryFailed
    /\ \E k \in At("traverse_dag") : log[k].kind = "seen"
    /\ \E k \in At("traverse_directory") : log[k].kind = "seen"

\* C2 as stated: directory descent.  In a finished run without a failed
\* query, a row with index i written for a directory entry whose CID D
\* was not visited when the entry was reached is followed by a listing
\* query for D, and one tree row per entry of that listing is written
\* with parent_cid = D and index_of_parent = i.
C2_DirectoryDescent ==
    (Done /\ NoQueryFailed) =>
        \A k \in At("tree_row") :
            (log[k].kind = "dirs" /\ ~VisitedBefore(log[k].cid, k)) =>
                \E j \in At("get_ls") :
                    /\ j > k
                    /\ log[j].cid = log[k].cid
                    /\ Cardinality(
                         {m \in At("tree_row") :
                            /\ m > j
                            /\ log[m].items[1].parent_cid = log[k].cid
                            /\ log[m].items[1].index_of_parent = log[k].idx})
                         = Len(log[j].items)

\* C3 as stated: every tree row is for an entry whose child CID was not
\* in the visited set when the entry was handled, and no two rows of the
\* directories and files streams carry the same cid.
C3_RowsOnlyForUnvisited ==
    /\ \A k \in At("tree_row") : ~VisitedBefore(log[k].cid, k)
    /\ \A m, n \in DOMAIN TreeStreams :
        TreeStreams[m].cid = TreeStreams[n].cid => m = n

\* C3 amended: every tree row is for exactly one listing entry whose stat
\* query succeeded, and every such entry has exactly one row, visited or
\* not: for each CID the two streams hold as many rows as stat queries
\* for it succeeded, each row written right after its stat query.
C3_RowPerStattedEntry ==
    /\ \A c \in CIDs :
        Count(TreeStreams, c) =
            Cardinality({k \in At("get_stat") :
                            log[k].cid = c /\ log[k].kind = "ok"})
    /\ \A k \in At("tree_row") :
        /\ k > 1
        /\ log[k - 1].ev = "get_stat"
        /\ log[k - 1].kind = "ok"
        /\ log[k - 1].cid = log[k].items[1].cid

\* C3 witness: two rows with the same cid, the second for a CID that was
\* visited by then.
C3_Witness ==
    /\ \E m, n \in DOMAIN TreeStreams :
        m # n /\ TreeStreams[m].cid = TreeStreams[n].cid
    /\ \E k \in At("tree_row") : VisitedBefore(log[k].cid, k)

\* C4: row index monotonicity.  The indices given to tree rows strictly
\* increase in the order the rows are written, and every index_of_parent
\* written is 0 or the index of a directory row written earlier.
C4_RowIndexMonotonic ==
    \A k \in At("tree_row") :
        /\ \A j \in At("tree_row") : j < k => log[j].idx < log[k].idx
        /\ \/ log[k].items[1].index_of_parent = 0
           \/ \E j \in At("tree_row") :
                /\ j < k
                /\ log[j].kind = "dirs"
                /\ log[j].idx = log[k].items[1].index_of_parent

\* C4 witness: a directory row followed by a later row.
C4_Witness ==
    \E j, k \in At("tree_row") :
        j < k /\ log[j].items[1].type = "directory"

\* The block rows with cid = c, in stream order.
BlockRowsOf(c) == SelectSeq(blocks, LAMBDA r : r.cid = c)

\* C5: edge-count fidelity.  When the run is over, for every CID C whose
\* DAG fetch returned N >= 1 links the block stream holds exactly N rows
\* with cid = C, in link order, each with num_links = N, final_block_hash
\* = the CID of the last link, parent_cid = the parent passed to the call
\* and size = the Tsize of its link.
C5_EdgeCountFidelity ==
    Done =>
        \A k \in At("get_dag") :
            (log[k].kind = "ok" /\ Len(log[k].items) >= 1) =>
                LET links == log[k].items
                    N == Len(links)
                IN  BlockRowsOf(log[k].cid) =
                        [i \in 1..N |->
                            [cid |-> log[k].cid,
                             parent_cid |-> log[k - 1].parent,
                             final_block_hash |-> links[N].Hash,
                             num_links |-> N,
                             size |-> links[i].Tsize]]

\* C5 witness: a finished run with a two-link node whose links carry
\* different Tsizes and one of whose link targets was already visited.
C5_Witness ==
    /\ Done
    /\ \E k \in At("get_dag") :
        /\ Len(log[k].items) = 2
        /\ log[k].items[1].Tsize # log[k].items[2].Tsize
        /\ \E j \in At("traverse_dag") :
            j > k /\ log[j].parent = log[k].cid /\ log[j].kind = "seen"

\* C6 as stated: terminal block fidelity.  When the run is over, every
\* CID whose DAG fetch returned a node without links (no Links field, or
\* an empty Links list) has exactly one block row, with num_links = 0,
\* size = 0 and final_block_hash = the CID.
C6_TerminalBlockFidelity ==
    Done =>
        \A k \in At("get_dag") :
            (log[k].kind = "missing"
                \/ (log[k].kind = "ok" /\ log[k].items = <<>>)) =>
                /\ Len(BlockRowsOf(log[k].cid)) = 1
                /\ BlockRowsOf(log[k].cid)[1].num_links = 0
                /\ BlockRowsOf(log[k].cid)[1].size = 0
                /\ BlockRowsOf(log[k].cid)[1].final_block_hash = log[k].cid

\* C7: stat-failure containment.  A failed stat query is followed by the
\* next entry's stat query or by the end of the listing (no row, no index,
\* no block walk for the failed entry); a successful one by the entry's
\* row and then the block walk of its CID; the k-th tree row has index k,
\* so a failed entry leaves no gap; and when the run is over every entry
\* of every listing has had its stat query, in listing order.
C7_StatFailureContained ==
    /\ \A k \in At("get_stat") :
        IF log[k].kind = "error"
        THEN k + 1 \in Pos =>
                \/ /\ log[k + 1].ev = "get_stat"
                   /\ log[k + 1].parent = log[k].parent
                \/ /\ log[k + 1].ev = "return"
                   /\ log[k + 1].kind = "traverse_directory"
                   /\ log[k + 1].cid = log[k].parent
        ELSE /\ k + 1 \in Pos
             /\ log[k + 1].ev = "tree_row"
             /\ log[k + 1].cid = log[k].cid
             /\ k + 2 \in Pos =>
                    /\ log[k + 2].ev = "traverse_dag"
                    /\ log[k + 2].cid = log[k].cid
    /\ \A k \in At("tree_row") :
        log[k].idx = Cardinality({j \in At("tree_row") : j <= k})
    /\ Done =>
        \A k \in At("get_ls") :
            LET stats == SelectSeq(log, LAMBDA e :
                            e.ev = "get_stat" /\ e.parent = log[k].cid)
            IN  /\ Len(stats) = Len(log[k].items)
                /\ \A n \in DOMAIN stats :
                    stats[n].cid = log[k].items[n].Hash

\* C7 witness: a finished run in which a stat query failed and a later
\* entry of the same listing got its row.
C7_Witness ==
    /\ Done
    /\ \E j, k \in At("get_stat") :
        /\ j < k
        /\ log[j].kind = "error"
        /\ log[k].kind = "ok"
        /\ log[j].parent = log[k].parent

C9_IdempotentRevisit ==
    [][(Running("traverse_directory", "enter") /\ Top.cid \in visited) =>
        /\ UNCHANGED <<visited, dirs, files, blocks>>
        /\ \A k \in (Len(log) + 1)..Len(log') : log'[k].ev \notin Queries
        /\ log'[Len(log')].ev = "return"
        /\ log'[Len(log')].idx = Top.row_index
        /\ IF Len(stack) = 1
           THEN result' = Top.row_index
           ELSE /\ Len(stack') = Len(stack) - 1
                /\ stack'[Len(stack')].row_index = Top.row_index]_vars

\* C9 witness: traverse_directory has been called on a visited CID with
\* a counter other than the initial one.
C9_Witness ==
    \E k \in At("traverse_directory") :
        log[k].kind = "seen" /\ log[k].idx > 1

\* C10 as stated: all block rows with the same cid are adjacent.
C10_SingleContiguousRun ==
    \A i, k, j \in DOMAIN blocks :
        (i < k /\ k < j /\ blocks[i].cid = blocks[j].cid) =>
            blocks[k].cid = blocks[i].cid

\* The link targets of c as fetched, and what is reachable from them.
LinksOf(c) ==
    UNION {{log[k].items[n].Hash : n \in DOMAIN log[k].items} :
              k \in {j \in At("get_dag") : log[j].cid = c}}
RECURSIVE ReachFrom(_, _)
ReachFrom(S, n) ==
    IF n = 0 THEN S
    ELSE ReachFrom(S \cup UNION {LinksOf(c) : c \in S}, n - 1)
Descendants(c) == ReachFrom(LinksOf(c), Cardinality(CIDs))

\* C10 amended: the block rows with cid = C are all written by one call
\* (same parent_cid, num_links and final_block_hash), and a row with
\* another cid between two of them belongs to a CID reachable from C
\* through DAG links: the run of C is split only by the walks of C's own
\* link targets.
C10_RunSplitByDescendants ==
    /\ \A i, j \in DOMAIN blocks :
        blocks[i].cid = blocks[j].cid =>
            /\ blocks[i].parent_cid = blocks[j].parent_cid
            /\ blocks[i].num_links = blocks[j].num_links
            /\ blocks[i].final_block_hash = blocks[j].final_block_hash
    /\ \A i, k, j \in DOMAIN blocks :
        (i < k /\ k < j /\ blocks[i].cid = blocks[j].cid) =>
            \/ blocks[k].cid = blocks[i].cid
            \/ blocks[k].cid \in Descendants(blocks[i].cid)

\* C10 witness: a row of another CID between two rows of one CID.
C10_Witness ==
    \E i, k, j \in DOMAIN blocks :
        /\ i < k /\ k < j
        /\ blocks[i].cid = blocks[j].cid
        /\ blocks[k].cid # blocks[i].cid

\* -------------------------------------------------- calls and their returns

IsCall(k) == log[k].ev \in Walkers
IsReturn(k) == log[k].ev = "return"
\* The position of the return of the call logged at p, 0 while it runs.
ReturnOf(p) ==
    LET S == {q \in Pos :
                /\ q > p
                /\ IsReturn(q)
                /\ Cardinality({m \in p..q : IsCall(m)})
                     = Cardinality({m \in p..q : IsReturn(m)})}
    IN  IF S = {} THEN 0 ELSE CHOOSE q \in S : \A r \in S : q <= r
\* An event of the Block Walker.
IsDagEvent(k) ==
    \/ log[k].ev \in {"traverse_dag", "get_dag", "block_row"}
    \/ log[k].ev = "return" /\ log[k].kind = "traverse_dag"

\* C11: walk ordering per entry.  After a successful stat query comes the
\* entry's tree row, then the call of traverse_dag on the entry's CID;
\* until that call returns only Block Walker events happen; and what
\* follows its return is the traverse_directory call on the child CID for
\* a directory entry, and the next sibling's stat query or the end of the
\* listing for a file entry.
C11_WalkOrdering ==
    \A k \in At("get_stat") :
        log[k].kind = "ok" =>
            /\ k + 1 \in Pos
            /\ log[k + 1].ev = "tree_row"
            /\ log[k + 1].cid = log[k].cid
            /\ k + 2 \in Pos =>
                LET q == ReturnOf(k + 2)
                    last == IF q = 0 THEN Len(log) ELSE q
                IN  /\ log[k + 2].ev = "traverse_dag"
                    /\ log[k + 2].cid = log[k].cid
                    /\ \A m \in (k + 2)..last : IsDagEvent(m)
                    /\ (q # 0 /\ q + 1 \in Pos) =>
                        IF log[k + 1].items[1].type = "directory"
                        THEN /\ log[q + 1].ev = "traverse_directory"
                             /\ log[q + 1].cid = log[k].cid
                        ELSE \/ /\ log[q + 1].ev = "get_stat"
                                /\ log[q + 1].parent = log[k].parent
                             \/ /\ log[q + 1].ev = "return"
                                /\ log[q + 1].kind = "traverse_directory"
                                /\ log[q + 1].cid = log[k].parent

\* C11 witness: a finished run in which the block walk of a directory
\* entry went through a link and a sibling entry was handled after it.
C11_Witness ==
    /\ Done
    /\ \E k \in At("get_stat") :
        /\ log[k].kind = "ok"
        /\ log[k + 1].items[1].type = "directory"
        /\ ReturnOf(k + 2) > k + 4
        /\ \E j \in At("get_stat") : j > k

\* The call during which the block row logged at m is written: the last
\* traverse_dag call on the row's cid before m.
WriterCall(m) ==
    LET S == {p \in At("traverse_dag") :
                p < m /\ log[p].cid = log[m].cid /\ log[p].kind = "fresh"}
    IN  CHOOSE p \in S : \A r \in S : r <= p

\* C12: block parent attribution.  A block row written by the call the
\* Tree Walker makes for a listing entry (the call that follows the
\* entry's tree row) carries the CID of the directory being listed as
\* parent_cid, never the entry's own CID; a row written by a call made for
\* a link (the call that follows the link's row) carries the CID of the
\* node that holds the link.
C12_BlockParentAttribution ==
    \A m \in At("block_row") :
        LET p == WriterCall(m)
            row == log[m].items[1]
        IN  /\ p > 1
            /\ log[p - 1].ev \in {"tree_row", "block_row"}
            /\ row.parent_cid = log[p - 1].parent
            /\ log[p - 1].ev = "tree_row" =>
                /\ log[p - 1].cid = row.cid
                /\ row.parent_cid # row.cid
                /\ \E j \in At("get_ls") : log[j].cid = row.parent_cid
            /\ log[p - 1].ev = "block_row" =>
                /\ log[p - 1].cid = row.parent_cid
                /\ row.cid \in LinksOf(row.parent_cid)

\* C12 witness: a block row written by the call made for a listing entry
\* and one written by a call made for a link of that entry's node.
C12_Witness ==
    \E m, n \in At("block_row") :
        /\ log[WriterCall(m) - 1].ev = "tree_row"
        /\ log[WriterCall(n) - 1].ev = "block_row"
        /\ log[n].items[1].parent_cid = log[m].cid

\* C13: failed DAG fetch.  A failed DAG-get for C is followed at once by
\* the return of that call; no block row with cid = C is ever written, C
\* stays in the visited set and is not fetched again; and the caller goes
\* on: when the run is over every link of every fetched node has had its
\* traverse_dag call, in link order, and every listing entry its stat
\* query.
C13_FailedDagFetch ==
    /\ \A k \in At("get_dag") :
        log[k].kind = "error" =>
            /\ BlockRowsOf(log[k].cid) = <<>>
            /\ log[k].cid \in visited
            /\ k + 1 \in Pos
            /\ log[k + 1].ev = "return"
            /\ log[k + 1].kind = "traverse_dag"
            /\ log[k + 1].cid = log[k].cid
            /\ \A j \in At("get_dag") : log[j].cid = log[k].cid => j = k
    /\ Done =>
        /\ \A k \in At("get_dag") :
            LET calls == SelectSeq(log, LAMBDA e :
                            e.ev = "traverse_dag" /\ e.parent = log[k].cid)
            IN  /\ Len(calls) = Len(log[k].items)
                /\ \A n \in DOMAIN calls :
                    calls[n].cid = log[k].items[n].Hash
        /\ \A k \in At("get_ls") :
            Cardinality({j \in At("get_stat") : log[j].parent = log[k].cid})
                = Len(log[k].items)

\* C13 witness: a finished run in which a DAG fetch failed and the caller
\* went on to another link or another entry.
C13_Witness ==
    /\ Done
    /\ \E k \in At("get_dag") :
        /\ log[k].kind = "error"
        /\ \E m \in Pos :
            /\ m > k + 1
            /\ log[m].ev \in {"traverse_dag", "get_stat"}

\* C14: an unobtainable listing is an empty subtree.  When the listing
\* query of a traverse_directory call fails or its body has no Objects,
\* the call returns at once the row_index it was given: no row, no stat or
\* DAG-get query; the CID stays in the visited set.
C14_UnobtainableListing ==
    \A k \in At("get_ls") :
        log[k].kind \in {"error", "missing"} =>
            /\ k > 1
            /\ log[k - 1].ev = "traverse_directory"
            /\ log[k - 1].cid = log[k].cid
            /\ k + 1 \in Pos
            /\ log[k + 1].ev = "return"
            /\ log[k + 1].kind = "traverse_directory"
            /\ log[k + 1].cid = log[k].cid
            /\ log[k + 1].idx = log[k - 1].idx
            /\ log[k].cid \in visited
            /\ (log[k].cid = RootCid /\ k = 2) =>
                /\ Done
                /\ result = 1
                /\ dirs = <<>> /\ files = <<>> /\ blocks = <<>>
                /\ Len(log) = 3

\* C14 witness: the run is over after a listing without Objects.
C14_Witness ==
    /\ Done
    /\ \E k \in At("get_ls") : log[k].kind = "missing"

\* What the node served as children of c, by listing or by DAG links, and
\* whether what it served holds a cycle.
ChildrenOf(c) ==
    UNION {{log[k].items[n].Hash : n \in DOMAIN log[k].items} :
              k \in {j \in Pos : log[j].ev \in Fetches /\ log[j].cid = c}}
RECURSIVE Below(_, _)
Below(S, n) ==
    IF n = 0 THEN S
    ELSE Below(S \cup UNION {ChildrenOf(c) : c \in S}, n - 1)
Acyclic ==
    \A c \in CIDs : c \notin Below(ChildrenOf(c), Cardinality(CIDs))

\* C15: the root is never a row.  When the graph served is acyclic, no
\* row of the three streams has cid = the root CID, and no block row names
\* the root as final_block_hash: the root occurs as parent_cid only.
C15_RootNeverARow ==
    Acyclic =>
        /\ \A n \in DOMAIN TreeStreams : TreeStreams[n].cid # RootCid
        /\ \A n \in DOMAIN blocks :
            /\ blocks[n].cid # RootCid
            /\ blocks[n].final_block_hash # RootCid

\* C15 witness: a finished run on an acyclic graph with rows in all three
\* streams, some of them naming the root as parent.
C15_Witness ==
    /\ Done
    /\ Acyclic
    /\ dirs # <<>> /\ files # <<>> /\ blocks # <<>>
    /\ \E n \in DOMAIN blocks : blocks[n].parent_cid = RootCid

\* The listing entry the tree row logged at k is for: the stat query just
\* before it is the n-th of its directory, so the entry is the n-th of
\* that directory's listing.
EntryOf(k) ==
    LET dir == log[k - 1].parent
        n == Cardinality({j \in At("get_stat") :
                            j < k /\ log[j].parent = dir})
        ls == CHOOSE j \in At("get_ls") : log[j].cid = dir
    IN  log[ls].items[n]
\* The rows of the tree_row events up to k whose entry is (is not) tagged
\* as a directory, and the rows of the block_row events up to k.
RECURSIVE TreeRowsUpTo(_, _)
TreeRowsUpTo(k, directory) ==
    IF k = 0 THEN <<>>
    ELSE TreeRowsUpTo(k - 1, directory)
            \o (IF log[k].ev = "tree_row"
                    /\ ((EntryOf(k).Type = 1) <=> directory)
                THEN log[k].items ELSE <<>>)
RECURSIVE BlockRowsUpTo(_)
BlockRowsUpTo(k) ==
    IF k = 0 THEN <<>>
    ELSE BlockRowsUpTo(k - 1)
            \o (IF log[k].ev = "block_row" THEN log[k].items ELSE <<>>)

\* C16: stream routing and order.  The directories stream is exactly the
\* rows of the entries tagged Type = 1 and the files stream exactly the
\* rows of the other entries, each in the order the entries were handled
\* (one row per entry whose stat succeeded); the block stream holds the
\* Block Walker's rows only; and the row indices increase along each
\* stream.
C16_StreamRouting ==
    /\ dirs = TreeRowsUpTo(Len(log), TRUE)
    /\ files = TreeRowsUpTo(Len(log), FALSE)
    /\ blocks = BlockRowsUpTo(Len(log))
    /\ Len(dirs) + Len(files) =
        Cardinality({k \in At("get_stat") : log[k].kind = "ok"})
    /\ \A n \in DOMAIN dirs : dirs[n].type = "directory"
    /\ \A n \in DOMAIN files : files[n].type = "file"
    /\ \A j, k \in At("tree_row") :
        (j < k /\ EntryOf(j).Type = EntryOf(k).Type) =>
            log[j].idx < log[k].idx

\* C16 witness: a file row, then a directory row, and block rows.
C16_Witness ==
    /\ blocks # <<>>
    /\ \E j, k \in At("tree_row") :
        /\ j < k
        /\ EntryOf(j).Type # 1
        /\ EntryOf(k).Type = 1
        /\ files = log[j].items
        /\ dirs = log[k].items

\* C17: back-reference integrity of the block stream.  The parent_cid of
\* every block row is the CID of a directory the Tree Walker issued a
\* listing query for, or the cid of an earlier block row whose node links
\* to the row's cid.
C17_BlockBackReference ==
    \A n \in DOMAIN blocks :
        \/ \E k \in At("get_ls") : log[k].cid = blocks[n].parent_cid
        \/ \E m \in 1..(n - 1) :
            /\ blocks[m].cid = blocks[n].parent_cid
            /\ blocks[n].cid \in LinksOf(blocks[m].cid)

\* C17 witness: a block row whose parent is an earlier block row's node
\* and not a listed directory.
C17_Witness ==
    \E n \in DOMAIN blocks :
        /\ \A k \in At("get_ls") : log[k].cid # blocks[n].parent_cid
        /\ \E m \in 1..(n - 1) : blocks[m].cid = blocks[n].parent_cid

C20_CounterAccounting ==
    /\ \A p \in At("traverse_directory") :
        LET q == ReturnOf(p)
        IN  q # 0 =>
                /\ log[q].kind = "traverse_directory"
                /\ log[q].cid = log[p].cid
                /\ log[q].idx = log[p].idx
                    + Cardinality({k \in At("tree_row") : p < k /\ k < q})
    /\ Done => result = 1 + Len(dirs) + Len(files)
    /\ \A k \in At("tree_row") :
        log[k].idx = Cardinality({j \in At("tree_row") : j <= k})

\* C20 witness: a finished run with two tree rows, the first for a
\* directory, so that a nested call was given and returned the counter 2.
C20_Witness ==
    /\ Done
    /\ result = 3
    /\ \E p \in At("traverse_directory") :
        /\ log[p].idx = 2
        /\ ReturnOf(p) # 0
        /\ log[ReturnOf(p)].idx = 2

====
